---- MODULE Spec2Model ----
(***************************************************************************)
(* regproxy2: a registry-backed fan-out reverse proxy (src/main.go).       *)
(*                                                                         *)
(* Strings are sequences of tokens.  "=" and "\n" are the two characters   *)
(* the file format gives a meaning to; every other token stands for a run  *)
(* of ordinary characters.                                                 *)
(***************************************************************************)
EXTENDS Integers, Sequences, FiniteSets, TLC

VARIABLES
  backend,        \* which RegStorage main constructed: "memory" or "file"
  upstreams,      \* RegStorageMemory.upstreams
  file,           \* the content of the file of RegStorageFile
  ops,            \* registry requests served so far
  last,           \* the registry request served last, with its response
  pc,             \* where the proxy handler is
  snap,           \* proxy's local upstreams: the snapshot
  snapErr,        \* proxy's local err of the snapshot read
  task,           \* where each forward goroutine is
  outcome,        \* what p.client.Do returned to each forward goroutine
  calls,          \* outbound calls made, per upstream
  got,            \* iterations of the aggregation loop that received an outcome
  order,          \* the upstreams in the order their outcomes were received
  latestSuccess,  \* proxy's local latestSuccess
  e,              \* proxy's local e
  cancelled,      \* req.Context().Done() is closed
  preCancel,      \* what had happened when the context was cancelled
  resp,           \* the response proxy wrote
  writeLock,      \* RegProxy.writeLock: the handler that holds it, or 0
  proc,           \* where each registry handler that runs concurrently is
  hist,           \* the registry requests that were answered, in that order
  crashed,        \* the runtime ended the process (fatal error)
  held,           \* the maps a caller of the store got from All, per store
  call            \* the call of the store made last, what it returned

regVars == <<backend, upstreams, file>>
dispVars == <<pc, snap, snapErr, task, outcome, calls, got, order, latestSuccess, e,
              cancelled, preCancel, resp>>
vars == <<backend, upstreams, file, ops, last,
          pc, snap, snapErr, task, outcome, calls, got, order, latestSuccess, e,
          cancelled, preCancel, resp,
          writeLock, proc, hist, crashed, held, call>>
concVars == <<writeLock, proc, hist, crashed>>
storeVars == <<held, call>>

----------------------------------------------------------------------------
(* Bounds *)

\* number of register / deregister / list requests served in one run
MaxOps == 2
\* number of lines of a file found on disk
MaxLines == 2
\* registry handlers that may run at the same time, and the requests they serve
MaxProcs == 2
MaxReqs == 3
\* calls of the store made one after the other
MaxCalls == 3

----------------------------------------------------------------------------
(* Inputs *)

NameA == <<"A">>
NameB == <<"B">>
RegNames == {NameA, NameB}
\* a name that makes a line longer than the buffer of the Scanner
NameLong == <<"L", "L", "L", "L", "L", "L">>

U1 == <<"http://", "h1">>
U2 == <<"http://", "h2">>
UUpper == <<"HTTP://", "h1">>
UQuery == <<"http://", "h1", "?k", "=", "v">>
UBad == <<"%">>
Callbacks == {U1, U2, UUpper, UQuery, UBad}

\* statuses an upstream may reply with, on both sides of the bounds of isSuccess
Statuses == {199, 200, 399, 400}

\* a nil error of the store or of net/url
NoErr == "nil"
\* a nil *url.URL
NilURL == [Scheme |-> "", Host |-> "", Rest |-> <<>>]

----------------------------------------------------------------------------
(* net/url, as far as the program uses it *)

SchemeTokens == {"http://", "HTTP://"}
HostTokens == {"h1", "h2"}
\* "%" stands for an invalid escape, "\n" is a control character
InvalidTokens == {"%", "\n"}

Drop(s, n) == SubSeq(s, n + 1, Len(s))

\* url.Parse
urlParse(s) ==
  IF \E i \in DOMAIN s : s[i] \in InvalidTokens
    THEN [err |-> "parse", u |-> NilURL]
    ELSE IF Len(s) >= 1 /\ s[1] \in SchemeTokens
      THEN IF Len(s) >= 2 /\ s[2] \in HostTokens
             THEN [err |-> NoErr,
                   u |-> [Scheme |-> "http", Host |-> s[2], Rest |-> Drop(s, 2)]]
             ELSE [err |-> NoErr,
                   u |-> [Scheme |-> "http", Host |-> "", Rest |-> Drop(s, 1)]]
      ELSE [err |-> NoErr, u |-> [Scheme |-> "", Host |-> "", Rest |-> s]]

\* (*url.URL).String
urlString(u) ==
  (IF u.Scheme = "" THEN <<>> ELSE <<"http://">>)
    \o (IF u.Host = "" THEN <<>> ELSE <<u.Host>>)
    \o u.Rest

----------------------------------------------------------------------------
(* Maps *)

EmptyMap == <<>>
MapPut(m, k, v) == [x \in (DOMAIN m) \cup {k} |-> IF x = k THEN v ELSE m[x]]
MapDelete(m, k) == [x \in (DOMAIN m) \ {k} |-> m[x]]

\* the orders in which a range over a Go map may visit its keys
Orders(S) ==
  {o \in [1..Cardinality(S) -> S] : \A i, j \in DOMAIN o : i # j => o[i] # o[j]}

----------------------------------------------------------------------------
(* The persisted format: one entry per line, name=url *)

IndexOf(s, c) ==
  IF \E i \in DOMAIN s : s[i] = c
    THEN CHOOSE i \in DOMAIN s : s[i] = c /\ \A j \in 1..(i - 1) : s[j] # c
    ELSE 0

\* bufio.MaxScanTokenSize (64 * 1024 bytes), the size of the buffer of a
\* Scanner made by bufio.NewScanner, scaled to the lengths of the model
MaxScanTokenSize == 8

\* bufio.Scanner with the default split function (ScanLines): the lines of
\* the input without their terminator; a last line without a terminator
\* counts. A line that does not fit the buffer ends the scan: Scan returns
\* false, and parseMap does not look at scan.Err()
RECURSIVE ScanLines(_)
ScanLines(f) ==
  IF f = <<>> THEN <<>>
  ELSE LET i == IndexOf(f, "\n")
           n == IF i = 0 THEN Len(f) ELSE i - 1
       IN IF n >= MaxScanTokenSize THEN <<>>
          ELSE IF i = 0 THEN <<f>>
          ELSE <<SubSeq(f, 1, i - 1)>> \o ScanLines(Drop(f, i))

\* strings.Split(line, "=")
RECURSIVE SplitEq(_)
SplitEq(line) ==
  LET i == IndexOf(line, "=")
  IN IF i = 0 THEN <<line>>
     ELSE <<SubSeq(line, 1, i - 1)>> \o SplitEq(Drop(line, i))

\* a load that skips the lines it cannot read
RECURSIVE parseLines_mut(_, _)
parseLines_mut(lines, res) ==
  IF lines = <<>> THEN [err |-> NoErr, m |-> res]
  ELSE LET strs == SplitEq(Head(lines))
       IN IF Len(strs) # 2 \/ urlParse(strs[Len(strs)]).err # NoErr
            THEN parseLines_mut(Tail(lines), res)
            ELSE parseLines_mut(Tail(lines), MapPut(res, strs[1], urlParse(strs[2]).u))

\* the loop of parseMap over the scanned lines, res being the map built so far
RECURSIVE parseLines(_, _)
parseLines(lines, res) ==
  IF lines = <<>> THEN [err |-> NoErr, m |-> res]
  ELSE LET strs == SplitEq(Head(lines))
       IN IF Len(strs) # 2 THEN [err |-> "corrupt", m |-> EmptyMap]
          ELSE LET r == urlParse(strs[2])
               IN IF r.err # NoErr THEN [err |-> r.err, m |-> EmptyMap]
                  ELSE parseLines(Tail(lines), MapPut(res, strs[1], r.u))

parseMap(f) == parseLines(ScanLines(f), EmptyMap)

\* the bytes RegStorageFile.write hands to os.WriteFile when the range over
\* content visits the names in the order o
RECURSIVE writeBytes(_, _)
writeBytes(content, o) ==
  IF o = <<>> THEN <<>>
  ELSE Head(o) \o <<"=">> \o urlString(content[Head(o)]) \o <<"\n">>
         \o writeBytes(content, Tail(o))

----------------------------------------------------------------------------
(* RegStorage: the two backends behind one interface *)

Backends == {"memory", "file"}

\* RegStorage.All
storageAll(b, ups, f) ==
  IF b = "memory" THEN [err |-> NoErr, m |-> ups] ELSE parseMap(f)

\* a Put that takes a file it cannot load for an empty one and rewrites it
storagePut_mut(b, ups, f, name, u) ==
  IF b = "memory"
    THEN {[err |-> NoErr, upstreams |-> MapPut(ups, name, u), file |-> f]}
    ELSE LET mm == MapPut(parseMap(f).m, name, u)
         IN {[err |-> NoErr, upstreams |-> ups,
              file |-> writeBytes(mm, o)] : o \in Orders(DOMAIN mm)}
\* RegStorage.Put: the outcomes it may have, each with the state it leaves
storagePut(b, ups, f, name, u) ==
  IF b = "memory"
    THEN {[err |-> NoErr, upstreams |-> MapPut(ups, name, u), file |-> f]}
    ELSE LET r == parseMap(f)
         IN IF r.err # NoErr
              THEN {[err |-> r.err, upstreams |-> ups, file |-> f]}
              ELSE LET mm == MapPut(r.m, name, u)
                   IN {[err |-> NoErr, upstreams |-> ups,
                        file |-> writeBytes(mm, o)] : o \in Orders(DOMAIN mm)}

\* a Remove that reports a name it does not find
storageRemove_mut(b, ups, f, name) ==
  LET r == storageAll(b, ups, f)
  IN IF r.err # NoErr
       THEN {[err |-> r.err, upstreams |-> ups, file |-> f]}
       ELSE IF name \notin DOMAIN r.m
         THEN {[err |-> "not found", upstreams |-> ups, file |-> f]}
         ELSE IF b = "memory"
           THEN {[err |-> NoErr, upstreams |-> MapDelete(ups, name), file |-> f]}
           ELSE {[err |-> NoErr, upstreams |-> ups,
                  file |-> writeBytes(MapDelete(r.m, name), o)] :
                    o \in Orders(DOMAIN r.m \ {name})}

\* RegStorage.Remove
storageRemove(b, ups, f, name) ==
  IF b = "memory"
    THEN {[err |-> NoErr, upstreams |-> MapDelete(ups, name), file |-> f]}
    ELSE LET r == parseMap(f)
         IN IF r.err # NoErr
              THEN {[err |-> r.err, upstreams |-> ups, file |-> f]}
              ELSE LET mm == MapDelete(r.m, name)
                   IN {[err |-> NoErr, upstreams |-> ups,
                        file |-> writeBytes(mm, o)] : o \in Orders(DOMAIN mm)}

----------------------------------------------------------------------------
(* The registry handlers: register, deregister, list *)

\* the record of the request served last: what was asked, the store's content
\* it found and the response it got
Req(op, name, callback, status, body, pre) ==
  [op |-> op, name |-> name, callback |-> callback, status |-> status,
   body |-> body, pre |-> pre]

NoBody == [json |-> "none", items |-> <<>>]
\* the text badRequest and errResp write: err.Error()
textBody(t) == [json |-> "text", items |-> <<t>>]

\* log.Fatal has not ended the process
Running == ~(last.op = "restart" /\ last.status = 1)
NoReq == Req("none", <<>>, <<>>, 0, NoBody, [err |-> NoErr, m |-> EmptyMap])

\* the state of the store a request found, for the record in last
Pre == storageAll(backend, upstreams, file)

\* RegProxy.register, jsonOk telling whether the body decodes
register(jsonOk, name, callback) ==
  /\ Running
  /\ ops < MaxOps
  /\ ops' = ops + 1
  /\ LET r == urlParse(callback)
         rec(status, body) == Req("register", name, callback, status, body, Pre)
     IN IF ~jsonOk \/ r.err # NoErr
          THEN /\ last' = rec(400, textBody(IF ~jsonOk THEN "json" ELSE r.err))
               /\ UNCHANGED regVars
          ELSE \E p \in storagePut(backend, upstreams, file, name, r.u) :
                 /\ upstreams' = p.upstreams
                 /\ file' = p.file
                 /\ last' = IF p.err # NoErr THEN rec(500, textBody(p.err))
                            ELSE rec(204, NoBody)
                 /\ UNCHANGED backend
  /\ UNCHANGED <<dispVars, concVars, storeVars>>

\* RegProxy.deregister
deregister(jsonOk, name) ==
  /\ Running
  /\ ops < MaxOps
  /\ ops' = ops + 1
  /\ LET rec(status, body) == Req("deregister", name, <<>>, status, body, Pre)
     IN IF ~jsonOk
          THEN /\ last' = rec(400, textBody("json"))
               /\ UNCHANGED regVars
          ELSE \E p \in storageRemove(backend, upstreams, file, name) :
                 /\ upstreams' = p.upstreams
                 /\ file' = p.file
                 /\ last' = IF p.err # NoErr THEN rec(500, textBody(p.err))
                            ELSE rec(204, NoBody)
                 /\ UNCHANGED backend
  /\ UNCHANGED <<dispVars, concVars, storeVars>>

\* what json.Encode makes of the slice RegProxy.list builds when its range
\* visits the names in the order o; the slice is nil when nothing was appended
listing(all, o) ==
  IF o = <<>> THEN [json |-> "null", items |-> <<>>]
  ELSE [json |-> "array",
        items |-> [i \in DOMAIN o |->
                     [Name |-> o[i], Callback |-> urlString(all[o[i]])]]]

\* a list that empties the store it has read
list_mut ==
  /\ Running
  /\ ops < MaxOps
  /\ ops' = ops + 1
  /\ LET r == Pre
     IN IF r.err # NoErr
          THEN last' = Req("list", <<>>, <<>>, 500, textBody(r.err), r)
          ELSE \E o \in Orders(DOMAIN r.m) :
                 last' = Req("list", <<>>, <<>>, 200, listing(r.m, o), r)
  /\ upstreams' = EmptyMap
  /\ file' = <<>>
  /\ UNCHANGED backend
  /\ UNCHANGED <<dispVars, concVars, storeVars>>

\* RegProxy.list
list ==
  /\ Running
  /\ ops < MaxOps
  /\ ops' = ops + 1
  /\ LET r == Pre
     IN IF r.err # NoErr
          THEN last' = Req("list", <<>>, <<>>, 500, textBody(r.err), r)
          ELSE \E o \in Orders(DOMAIN r.m) :
                 last' = Req("list", <<>>, <<>>, 200, listing(r.m, o), r)
  /\ UNCHANGED regVars
  /\ UNCHANGED <<dispVars, concVars, storeVars>>

\* RegProxy.health: 200 and the body {"status": "pass"}, the store is not
\* called
health ==
  /\ Running
  /\ ops < MaxOps
  /\ ops' = ops + 1
  /\ last' = Req("health", <<>>, <<>>, 200, [json |-> "object", items |-> <<"pass">>], Pre)
  /\ UNCHANGED regVars
  /\ UNCHANGED <<dispVars, concVars, storeVars>>


----------------------------------------------------------------------------
(* main: the construction of the store, at the start and at a restart *)

\* NewRegStorageFile over a file that exists with the content f, or does not
\* exist: the error it returns and the content of the file afterwards
newRegStorageFile(exists, f) ==
  LET content == IF exists THEN f ELSE <<>>
  IN [err |-> parseMap(content).err, file |-> content]

\* the process ends and main runs again with the same flags; log.Fatal ends
\* it with status 1 when the store cannot be constructed
restart ==
  /\ Running
  /\ pc = "idle"
  /\ ops < MaxOps
  /\ ops' = ops + 1
  /\ IF backend = "memory"
       THEN /\ upstreams' = EmptyMap
            /\ last' = Req("restart", <<>>, <<>>, 0, NoBody, Pre)
            /\ UNCHANGED file
       ELSE LET r == newRegStorageFile(TRUE, file)
            IN /\ file' = r.file
               /\ last' = IF r.err # NoErr
                            THEN Req("restart", <<>>, <<>>, 1, textBody(r.err), Pre)
                            ELSE Req("restart", <<>>, <<>>, 0, NoBody, Pre)
               /\ UNCHANGED upstreams
  /\ UNCHANGED backend
  /\ UNCHANGED <<dispVars, concVars, storeVars>>

----------------------------------------------------------------------------
(* RegProxy.proxy: one dispatch, its forward goroutines and its aggregator *)

\* a range that takes 400 for a success
isSuccess_mut(status) == status >= 200 /\ status <= 400
\* isSuccess
isSuccess(status) == status >= 200 /\ status < 400

\* a nil *http.Response, a nil error
NilResp == [from |-> <<>>, status |-> 0]
NilError == [kind |-> "nil", from |-> <<>>, status |-> 0]

\* what client.Do may return for a call that ends while the inbound context is
\* live: a reply with some status, or an error and no reply
DoResults(n) ==
  {[kind |-> "reply", from |-> n, status |-> st] : st \in Statuses}
    \cup {[kind |-> "transport", from |-> n, status |-> 0]}

\* the request is bound to the inbound context (req.Clone(req.Context())):
\* a call that ends after the context was cancelled ends with its error
DoCanceled(n) == [kind |-> "canceled", from |-> n, status |-> 0]
\* a request that is not bound to the inbound context
DoAfterCancel_mut(n) == DoResults(n)
DoAfterCancel(n) == {DoCanceled(n)}

\* every reply goes to rc, whatever its status
publish_mut(r) ==
  IF r.kind # "reply" THEN [chan |-> "ec", val |-> r]
  ELSE [chan |-> "rc", val |-> r]

\* the channel a forward goroutine publishes its result on, and the value
publish(r) ==
  IF r.kind # "reply" THEN [chan |-> "ec", val |-> r]
  ELSE IF ~isSuccess(r.status)
    THEN [chan |-> "ec", val |-> [kind |-> "status", from |-> r.from, status |-> r.status]]
    ELSE [chan |-> "rc", val |-> r]

NoResponse == [status |-> 0, kind |-> "none", err |-> NilError, from |-> <<>>]
\* badRequest
badRequest(msg) ==
  [status |-> 400, kind |-> "text", err |-> [kind |-> msg, from |-> <<>>, status |-> 0],
   from |-> <<>>]
\* errResp
errResp(err) == [status |-> 500, kind |-> "error", err |-> err, from |-> <<>>]
\* a success written with a fixed status
writeSuccess_mut(r) == [status |-> 200, kind |-> "upstream", err |-> NilError, from |-> r.from]
\* resp.WriteHeader(latestSuccess.StatusCode); latestSuccess.Write(resp)
writeSuccess(r) == [status |-> r.status, kind |-> "upstream", err |-> NilError, from |-> r.from]

\* a validation that lets the empty snapshot through
noUpstreams_mut(m) == Cardinality(DOMAIN m) < 0
\* len(upstreams) < 1
noUpstreams(m) == Cardinality(DOMAIN m) < 1

\* a loop that waits for one outcome too many
iterations_mut(m) == Cardinality(DOMAIN m) + 1
\* the number of iterations of "for range upstreams"
iterations(m) == Cardinality(DOMAIN m)

\* a loop that ranges over the registry as it is now
N_mut == iterations(storageAll(backend, upstreams, file).m)
N == iterations(snap)

\* a success that clears the error recorded before it
selectCase_mut(p, ls, err) ==
  IF p.chan = "rc" THEN [latestSuccess |-> p.val, e |-> NilError]
  ELSE [latestSuccess |-> ls, e |-> p.val]

\* the effect of the select cases of rc and ec on latestSuccess and e
selectCase(p, ls, err) ==
  IF p.chan = "rc" THEN [latestSuccess |-> p.val, e |-> err]
  ELSE [latestSuccess |-> ls, e |-> p.val]

\* errResp(resp, req.Context().Err())
ctxErr == [kind |-> "context canceled", from |-> <<>>, status |-> 0]

\* a success preferred to the error
finalResponse_mut(err, ls) ==
  IF ls # NilResp THEN writeSuccess(ls) ELSE errResp(err)

\* what proxy writes after the loop
finalResponse(err, ls) ==
  IF err # NilError THEN errResp(err)
  ELSE IF ls = NilResp
    THEN [status |-> 0, kind |-> "panic", err |-> NilError, from |-> <<>>]
    ELSE writeSuccess(ls)

\* a proxy that goes on with the snapshot it got when the read failed
proxyBegin_mut(bodyOk) ==
  /\ Running
  /\ pc = "idle"
  /\ LET r == storageAll(backend, upstreams, file)
        IN /\ snap' = r.m
           /\ snapErr' = r.err
           /\ IF noUpstreams(r.m)
                THEN /\ resp' = badRequest("No upstreams registered")
                     /\ pc' = "rejected"
                     /\ UNCHANGED <<task, outcome>>
                ELSE IF ~bodyOk
                  THEN /\ resp' = errResp([kind |-> "body", from |-> <<>>, status |-> 0])
                       /\ pc' = "rejected"
                       /\ UNCHANGED <<task, outcome>>
                  ELSE /\ task' = [n \in DOMAIN r.m |-> "spawned"]
                       /\ outcome' = [n \in DOMAIN r.m |-> NilError]
                       /\ pc' = "wait"
                       /\ UNCHANGED resp
  /\ UNCHANGED <<calls, got, order, latestSuccess, e, cancelled, preCancel>>
  /\ UNCHANGED <<regVars, ops, last, concVars, storeVars>>

\* proxy up to the start of the aggregation loop: snapshot, validation, body,
\* one goroutine per upstream
proxyBegin(bodyOk) ==
  /\ Running
  /\ pc = "idle"
  /\ LET r == storageAll(backend, upstreams, file)
        IN /\ snap' = r.m
           /\ snapErr' = r.err
           /\ IF r.err # NoErr
                THEN /\ resp' = errResp([kind |-> r.err, from |-> <<>>, status |-> 0])
                     /\ pc' = "rejected"
                     /\ UNCHANGED <<task, outcome>>
                ELSE IF noUpstreams(r.m)
                  THEN /\ resp' = badRequest("No upstreams registered")
                       /\ pc' = "rejected"
                       /\ UNCHANGED <<task, outcome>>
                  ELSE IF ~bodyOk
                    THEN /\ resp' = errResp([kind |-> "body", from |-> <<>>, status |-> 0])
                         /\ pc' = "rejected"
                         /\ UNCHANGED <<task, outcome>>
                    ELSE /\ task' = [n \in DOMAIN r.m |-> "spawned"]
                         /\ outcome' = [n \in DOMAIN r.m |-> NilError]
                         /\ pc' = "wait"
                         /\ UNCHANGED resp
  /\ UNCHANGED <<calls, got, order, latestSuccess, e, cancelled, preCancel>>
  /\ UNCHANGED <<regVars, ops, last, concVars, storeVars>>

\* a forward goroutine up to p.client.Do(req2): the outbound call is made
forwardCall(n) ==
  /\ n \in DOMAIN task
  /\ task[n] = "spawned"
  /\ task' = [task EXCEPT ![n] = "calling"]
  /\ calls' = MapPut(calls, n, IF n \in DOMAIN calls THEN calls[n] + 1 ELSE 1)
  /\ UNCHANGED <<pc, snap, snapErr, outcome, got, order, latestSuccess, e, cancelled,
                 preCancel, resp>>
  /\ UNCHANGED <<regVars, ops, last, concVars, storeVars>>

\* a forward that is tried once more after a transport error
forwardReturn_mut(n) ==
  /\ n \in DOMAIN task
  /\ task[n] = "calling"
  /\ \E r \in (IF cancelled THEN DoAfterCancel(n) ELSE DoResults(n)) :
       /\ outcome' = [outcome EXCEPT ![n] = r]
       /\ task' = [task EXCEPT ![n] = IF r.kind = "transport" /\ calls[n] < 2
                                        THEN "spawned" ELSE "sending"]
  /\ UNCHANGED <<pc, snap, snapErr, calls, got, order, latestSuccess, e, cancelled,
                 preCancel, resp>>
  /\ UNCHANGED <<regVars, ops, last, concVars, storeVars>>

\* p.client.Do returns; the goroutine is about to publish the result
forwardReturn(n) ==
  /\ n \in DOMAIN task
  /\ task[n] = "calling"
  /\ \E r \in (IF cancelled THEN DoAfterCancel(n) ELSE DoResults(n)) :
       outcome' = [outcome EXCEPT ![n] = r]
  /\ task' = [task EXCEPT ![n] = "sending"]
  /\ UNCHANGED <<pc, snap, snapErr, calls, got, order, latestSuccess, e, cancelled,
                 preCancel, resp>>
  /\ UNCHANGED <<regVars, ops, last, concVars, storeVars>>

\* a loop that goes on receiving after the case of dc (no return)
recv_mut(n) ==
  /\ pc \in {"wait", "aborted"}
  /\ got < N
  /\ n \in DOMAIN task
  /\ task[n] = "sending"
  /\ LET c == selectCase(publish(outcome[n]), latestSuccess, e)
     IN latestSuccess' = c.latestSuccess /\ e' = c.e
  /\ got' = got + 1
  /\ order' = Append(order, n)
  /\ task' = [task EXCEPT ![n] = "exit"]
  /\ UNCHANGED <<pc, snap, snapErr, outcome, calls, cancelled, preCancel, resp>>
  /\ UNCHANGED <<regVars, ops, last, concVars, storeVars>>

\* one iteration of the aggregation loop taking a case of rc or ec: the
\* channels are unbuffered, the send of goroutine n and the receive are one step
recv(n) ==
  /\ pc = "wait"
  /\ got < N
  /\ n \in DOMAIN task
  /\ task[n] = "sending"
  /\ LET c == selectCase(publish(outcome[n]), latestSuccess, e)
     IN latestSuccess' = c.latestSuccess /\ e' = c.e
  /\ got' = got + 1
  /\ order' = Append(order, n)
  /\ task' = [task EXCEPT ![n] = "exit"]
  /\ UNCHANGED <<pc, snap, snapErr, outcome, calls, cancelled, preCancel, resp>>
  /\ UNCHANGED <<regVars, ops, last, concVars, storeVars>>

\* a case of dc that answers and stays in the loop
recvDone_mut ==
  /\ pc = "wait"
  /\ got < N
  /\ cancelled
  /\ resp' = errResp(ctxErr)
  /\ pc' = "wait"
  /\ UNCHANGED <<snap, snapErr, task, outcome, calls, got, order, latestSuccess, e,
                 cancelled, preCancel>>
  /\ UNCHANGED <<regVars, ops, last, concVars, storeVars>>

\* one iteration of the aggregation loop taking the case of dc
recvDone ==
  /\ pc = "wait"
  /\ got < N
  /\ cancelled
  /\ resp' = errResp(ctxErr)
  /\ pc' = "aborted"
  /\ UNCHANGED <<snap, snapErr, task, outcome, calls, got, order, latestSuccess, e,
                 cancelled, preCancel>>
  /\ UNCHANGED <<regVars, ops, last, concVars, storeVars>>

\* a loop that is left after the first outcome
proxyEnd_mut ==
  /\ pc = "wait"
  /\ got >= 1
  /\ resp' = finalResponse(e, latestSuccess)
  /\ pc' = "done"
  /\ UNCHANGED <<snap, snapErr, task, outcome, calls, got, order, latestSuccess, e,
                 cancelled, preCancel>>
  /\ UNCHANGED <<regVars, ops, last, concVars, storeVars>>

\* proxy after the aggregation loop
proxyEnd ==
  /\ pc = "wait"
  /\ got = N
  /\ resp' = finalResponse(e, latestSuccess)
  /\ pc' = "done"
  /\ UNCHANGED <<snap, snapErr, task, outcome, calls, got, order, latestSuccess, e,
                 cancelled, preCancel>>
  /\ UNCHANGED <<regVars, ops, last, concVars, storeVars>>

\* the inbound request's context is cancelled while the handler runs;
\* preCancel keeps what had happened by then
cancel ==
  /\ pc = "wait"
  /\ ~cancelled
  /\ cancelled' = TRUE
  /\ preCancel' = [fired |-> TRUE, got |-> got,
                   returned |-> {n \in DOMAIN task : task[n] \in {"sending", "exit"}}]
  /\ UNCHANGED <<pc, snap, snapErr, task, outcome, calls, got, order, latestSuccess, e,
                 resp>>
  /\ UNCHANGED <<regVars, ops, last, concVars, storeVars>>

----------------------------------------------------------------------------
(* register and deregister as they run in concurrent handler goroutines:
   one step per lock operation, per file system call and per map access *)

Procs == 1..MaxProcs
ConcCallbacks == {U1, UQuery}

\* a handler goroutine that serves no request
IdleProc ==
  [pc |-> "idle", op |-> "none", name |-> <<>>, callback |-> <<>>, u |-> NilURL,
   mm |-> EmptyMap, bytes |-> <<>>, ret |-> NoErr, raced |-> FALSE, after |-> FALSE,
   pre |-> EmptyMap, underLock |-> FALSE]

NoHandlers ==
  /\ writeLock = 0
  /\ proc = [p \in Procs |-> IdleProc]
  /\ hist = <<>>
  /\ crashed = FALSE

\* the requests accepted so far: answered or being served
Started == Len(hist) + Cardinality({p \in Procs : proc[p].pc # "idle"})

\* the handlers are interchangeable: a request is served by the first one
\* that serves none
FreeHandler(p) ==
  /\ proc[p].pc = "idle"
  /\ \A q \in Procs : q < p => proc[q].pc # "idle"

Answer(op, name, callback, status, after) ==
  [op |-> op, name |-> name, callback |-> callback, status |-> status, after |-> after]

\* a register of the name was answered 204 before
Registered(name) ==
  \E i \in DOMAIN hist :
    hist[i].op = "register" /\ hist[i].name = name /\ hist[i].status = 204

\* RegProxy.register up to p.writeLock.Lock(): decode, url.Parse
cRegister(p, jsonOk, name, callback) ==
  /\ ~crashed
  /\ FreeHandler(p)
  /\ Started < MaxReqs
  /\ LET r == urlParse(callback)
     IN IF ~jsonOk \/ r.err # NoErr
          THEN /\ hist' = Append(hist, IF jsonOk THEN Answer("register", name, callback, 400, TRUE)
                                        ELSE Answer("register", <<>>, <<>>, 400, TRUE))
               /\ UNCHANGED proc
          ELSE /\ proc' = [proc EXCEPT ![p] =
                             [IdleProc EXCEPT !.pc = "lock", !.op = "register",
                                              !.name = name, !.callback = callback,
                                              !.u = r.u, !.after = TRUE]]
               /\ UNCHANGED hist
  /\ UNCHANGED <<writeLock, crashed>>
  /\ UNCHANGED <<regVars, ops, last, dispVars, storeVars>>

\* p.writeLock.Lock()
cLock(p) ==
  /\ ~crashed
  /\ proc[p].pc = "lock"
  /\ writeLock = 0
  /\ writeLock' = p
  /\ proc' = [proc EXCEPT ![p].pc = "store"]
  /\ UNCHANGED <<hist, crashed>>
  /\ UNCHANGED <<regVars, ops, last, dispVars, storeVars>>

\* RegProxy.deregister up to p.storage.Remove: decode; no lock is taken
cDeregister(p, jsonOk, name) ==
  /\ ~crashed
  /\ FreeHandler(p)
  /\ Started < MaxReqs
  /\ IF ~jsonOk
       THEN /\ hist' = Append(hist, Answer("deregister", <<>>, <<>>, 400, FALSE))
            /\ UNCHANGED proc
       ELSE /\ proc' = [proc EXCEPT ![p] =
                          [IdleProc EXCEPT !.pc = "store", !.op = "deregister",
                                           !.name = name, !.after = Registered(name)]]
            /\ UNCHANGED hist
  /\ UNCHANGED <<writeLock, crashed>>
  /\ UNCHANGED <<regVars, ops, last, dispVars, storeVars>>

\* the handler is inside p.storage.Put or p.storage.Remove
InStore(p) == proc[p].pc \in {"mem", "write", "fill"}

\* mm[name] = url, delete(mm, name)
modify(op, m, name, u) ==
  IF op = "register" THEN MapPut(m, name, u) ELSE MapDelete(m, name)

\* Put or Remove is entered: the memory store is about to access its map, the
\* file store reads the file (m.All()) and changes the map it read
cStore(p) ==
  /\ ~crashed
  /\ proc[p].pc = "store"
  /\ IF backend = "memory"
       THEN LET race == \E q \in Procs \ {p} : proc[q].pc = "mem"
            IN proc' = [q \in Procs |->
                          IF q = p THEN [proc[p] EXCEPT !.pc = "mem", !.raced = race,
                                                        !.pre = upstreams]
                          ELSE IF proc[q].pc = "mem" THEN [proc[q] EXCEPT !.raced = TRUE]
                          ELSE proc[q]]
       ELSE LET r == parseMap(file)
            IN IF r.err # NoErr
                 THEN proc' = [proc EXCEPT ![p].pc = "reply", ![p].ret = r.err]
                 ELSE proc' = [proc EXCEPT
                                 ![p].pc = "write",
                                 ![p].pre = r.m,
                                 ![p].mm = modify(proc[p].op, r.m, proc[p].name, proc[p].u)]
  /\ UNCHANGED <<writeLock, hist, crashed>>
  /\ UNCHANGED <<regVars, ops, last, dispVars, storeVars>>

\* what an access of the map may do when another write of the same map ran at
\* the same time (a data race): take effect, be lost, or end the process with
\* "fatal error: concurrent map writes"
MapOutcomes(raced) == IF raced THEN {"applied", "lost", "fatal"} ELSE {"applied"}

\* RegStorageMemory.Put, RegStorageMemory.Remove: the access of the map
cMem(p) ==
  /\ ~crashed
  /\ proc[p].pc = "mem"
  /\ \E o \in MapOutcomes(proc[p].raced) :
       /\ upstreams' = IF o = "applied"
                         THEN modify(proc[p].op, upstreams, proc[p].name, proc[p].u)
                         ELSE upstreams
       /\ crashed' = (o = "fatal")
  /\ proc' = [proc EXCEPT ![p].pc = "reply", ![p].ret = NoErr]
  /\ UNCHANGED <<backend, file, writeLock, hist>>
  /\ UNCHANGED <<ops, last, dispVars, storeVars>>

\* RegStorageFile.write up to the open of os.WriteFile (O_TRUNC): the bytes
\* are built, the file is emptied
cTruncate(p) ==
  /\ ~crashed
  /\ proc[p].pc = "write"
  /\ \E o \in Orders(DOMAIN proc[p].mm) :
       proc' = [proc EXCEPT ![p].pc = "fill", ![p].bytes = writeBytes(proc[p].mm, o)]
  /\ file' = <<>>
  /\ UNCHANGED <<backend, upstreams, writeLock, hist, crashed>>
  /\ UNCHANGED <<ops, last, dispVars, storeVars>>

\* a write of bytes at offset 0 of a file that holds old
overwrite(old, bytes) == bytes \o SubSeq(old, Len(bytes) + 1, Len(old))

\* os.WriteFile: the write of the bytes and the close
cWrite(p) ==
  /\ ~crashed
  /\ proc[p].pc = "fill"
  /\ file' = overwrite(file, proc[p].bytes)
  /\ proc' = [proc EXCEPT ![p].pc = "reply", ![p].ret = NoErr]
  /\ UNCHANGED <<backend, upstreams, writeLock, hist, crashed>>
  /\ UNCHANGED <<ops, last, dispVars, storeVars>>

\* RegProxy.list and RegProxy.proxy up to p.storage.All()
Readers == {"list", "proxy"}
cRead(p, op) ==
  /\ ~crashed
  /\ FreeHandler(p)
  /\ Started < MaxReqs
  /\ proc' = [proc EXCEPT ![p] = [IdleProc EXCEPT !.pc = "read", !.op = op]]
  /\ UNCHANGED <<writeLock, hist, crashed>>
  /\ UNCHANGED <<regVars, ops, last, dispVars, storeVars>>

\* a reader that waits for the write lock
readerMayRun_mut(lock) == lock = 0
\* list and proxy call p.storage.All() without touching p.writeLock
readerMayRun(lock) == TRUE

\* what maps.Clone may do while a write of the map by the handler q is
\* going on (a data race): return the map as it was or as it will be, or end
\* the process with "fatal error: concurrent map clone and map write"
CloneOutcomes(ups) ==
  {[fatal |-> FALSE, m |-> ups]}
    \cup {[fatal |-> FALSE, m |-> modify(proc[q].op, ups, proc[q].name, proc[q].u)] :
            q \in {r \in Procs : proc[r].pc = "mem"}}
    \cup {[fatal |-> TRUE, m |-> ups] : q \in {r \in Procs : proc[r].pc = "mem"}}

\* p.storage.All() in list and proxy: maps.Clone of the memory store, a read
\* and a parse of the file of the file store
cSnapshot(p) ==
  /\ ~crashed
  /\ proc[p].pc = "read"
  /\ readerMayRun(writeLock)
  /\ IF backend = "memory"
       THEN \E o \in CloneOutcomes(upstreams) :
              /\ proc' = [proc EXCEPT ![p].pc = "reply", ![p].mm = o.m,
                                      ![p].ret = NoErr, ![p].underLock = (writeLock # 0)]
              /\ crashed' = o.fatal
       ELSE /\ proc' = [proc EXCEPT ![p].pc = "reply", ![p].mm = parseMap(file).m,
                                    ![p].ret = parseMap(file).err,
                                    ![p].underLock = (writeLock # 0)]
            /\ UNCHANGED crashed
  /\ UNCHANGED <<writeLock, hist>>
  /\ UNCHANGED <<regVars, ops, last, dispVars, storeVars>>

\* the status a handler answers with, given what the store returned; 0 for a
\* proxy that goes on to forward
replyStatus(op, ret, m) ==
  IF ret # NoErr THEN 500
  ELSE IF op = "list" THEN 200
  ELSE IF op = "proxy" THEN (IF noUpstreams(m) THEN 400 ELSE 0)
  ELSE 204

\* an Unlock that is skipped when Put returned an error
unlock_mut(op, ret, lock) == IF op = "register" /\ ret = NoErr THEN 0 ELSE lock
\* defer p.writeLock.Unlock(): the lock after the handler of op returned
unlock(op, ret, lock) == IF op = "register" THEN 0 ELSE lock

\* the handler answers and returns; register's deferred Unlock runs
cReply(p) ==
  /\ ~crashed
  /\ proc[p].pc = "reply"
  /\ hist' = Append(hist, Answer(proc[p].op, proc[p].name, proc[p].callback,
                                 replyStatus(proc[p].op, proc[p].ret, proc[p].mm),
                                 proc[p].after))
  /\ writeLock' = unlock(proc[p].op, proc[p].ret, writeLock)
  /\ proc' = [proc EXCEPT ![p] = IdleProc]
  /\ UNCHANGED crashed
  /\ UNCHANGED <<regVars, ops, last, dispVars, storeVars>>

----------------------------------------------------------------------------
(* The RegStorage interface called directly: the same calls made on a memory
   store (upstreams) and on a file store (file), side by side *)

StoreNames == {NameA, NameB, NameLong}
StoreURLs == {urlParse(U1).u, urlParse(U2).u, urlParse(UQuery).u}

\* neither '=' nor a newline
Plain(str) == \A i \in DOMAIN str : str[i] \notin {"=", "\n"}

\* a map a caller holds: alias tells whether it is the store's own map
NoSnapshot == [taken |-> FALSE, alias |-> FALSE, m |-> EmptyMap, err |-> NoErr]

\* an All that hands out the map of the store
allMemory_mut(ups) == [taken |-> TRUE, alias |-> TRUE, m |-> ups, err |-> NoErr]
\* RegStorageMemory.All: maps.Clone
allMemory(ups) == [taken |-> TRUE, alias |-> FALSE, m |-> ups, err |-> NoErr]
\* RegStorageFile.All: a map made by parseMap
allFile(f) == [taken |-> TRUE, alias |-> FALSE, m |-> parseMap(f).m, err |-> parseMap(f).err]

NoCalls ==
  /\ held = [mem |-> NoSnapshot, file |-> NoSnapshot]
  /\ call = [n |-> 0, op |-> "none", name |-> <<>>, u |-> NilURL,
             mem |-> NoErr, file |-> NoErr, plain |-> TRUE]

Called(op, name, u, errMem, errFile, plain) ==
  [n |-> call.n + 1, op |-> op, name |-> name, u |-> u,
   mem |-> errMem, file |-> errFile, plain |-> plain]

\* Put on both stores
sPut(name, u) ==
  /\ call.n < MaxCalls
  /\ \E pm \in storagePut("memory", upstreams, file, name, u),
        pf \in storagePut("file", upstreams, file, name, u) :
       /\ upstreams' = pm.upstreams
       /\ file' = pf.file
       /\ call' = Called("put", name, u, pm.err, pf.err,
                         call.plain /\ Plain(name) /\ Plain(urlString(u)))
  /\ UNCHANGED <<backend, held>>
  /\ UNCHANGED <<ops, last, dispVars, concVars>>

\* Remove on both stores
sRemove(name) ==
  /\ call.n < MaxCalls
  /\ \E pm \in storageRemove("memory", upstreams, file, name),
        pf \in storageRemove("file", upstreams, file, name) :
       /\ upstreams' = pm.upstreams
       /\ file' = pf.file
       /\ call' = Called("remove", name, NilURL, pm.err, pf.err,
                         call.plain /\ Plain(name))
  /\ UNCHANGED <<backend, held>>
  /\ UNCHANGED <<ops, last, dispVars, concVars>>

\* All on both stores; the caller keeps what they return
sAll ==
  /\ call.n < MaxCalls
  /\ held' = [mem |-> allMemory(upstreams), file |-> allFile(file)]
  /\ call' = Called("all", <<>>, NilURL, held'.mem.err, held'.file.err, call.plain)
  /\ UNCHANGED regVars
  /\ UNCHANGED <<ops, last, dispVars, concVars>>

\* the map a caller holds, as it reads now
View(w) == IF held[w].alias THEN upstreams ELSE held[w].m

\* the caller changes the map it got from All, as Put and Remove of the file
\* store do (mm[name] = url, delete(mm, name)); a map that is the store's
\* own is the store's state
sEdit(w, name, u, add) ==
  /\ call.n < MaxCalls
  /\ held[w].taken
  /\ held[w].err = NoErr
  /\ LET edited == IF add THEN MapPut(View(w), name, u) ELSE MapDelete(View(w), name)
     IN IF held[w].alias
          THEN upstreams' = edited /\ UNCHANGED held
          ELSE held' = [held EXCEPT ![w].m = edited] /\ UNCHANGED upstreams
  /\ call' = Called("edit", name, u, NoErr, NoErr, call.plain)
  /\ UNCHANGED <<backend, file>>
  /\ UNCHANGED <<ops, last, dispVars, concVars>>

----------------------------------------------------------------------------
(* Specifications *)

\* main: the storage backend is chosen by the flag storage-location; the
\* memory store starts empty, the file is created empty
Init ==
  /\ backend \in Backends
  /\ upstreams = EmptyMap
  /\ file = newRegStorageFile(FALSE, <<>>).file
  /\ ops = 0
  /\ last = NoReq
  /\ pc = "idle"
  /\ snap = EmptyMap
  /\ snapErr = NoErr
  /\ order = <<>>
  /\ task = EmptyMap
  /\ outcome = EmptyMap
  /\ calls = EmptyMap
  /\ got = 0
  /\ latestSuccess = NilResp
  /\ e = NilError
  /\ cancelled = FALSE
  /\ preCancel = [fired |-> FALSE, got |-> 0, returned |-> {}]
  /\ resp = NoResponse
  /\ NoHandlers
  /\ NoCalls

Next ==
  \/ \E jsonOk \in BOOLEAN, name \in RegNames, callback \in Callbacks :
       register(jsonOk, name, callback)
  \/ \E jsonOk \in BOOLEAN, name \in RegNames : deregister(jsonOk, name)
  \/ list
  \/ restart
  \/ \E bodyOk \in BOOLEAN : proxyBegin(bodyOk)
  \/ \E n \in RegNames : forwardCall(n)
  \/ \E n \in RegNames : forwardReturn(n)
  \/ \E n \in RegNames : recv(n)
  \/ recvDone
  \/ proxyEnd
  \/ cancel

Spec == Init /\ [][Next]_vars

\* the Go scheduler runs every runnable goroutine, and every outbound call
\* returns (the client has a timeout)
Fairness ==
  /\ \A n \in RegNames : WF_vars(forwardCall(n))
  /\ \A n \in RegNames : WF_vars(forwardReturn(n))
  /\ \A n \in RegNames : WF_vars(recv(n))
  /\ WF_vars(recvDone)
  /\ WF_vars(proxyEnd)

FairSpec == Init /\ [][Next]_vars /\ Fairness

\* the registry handlers running concurrently, on a store that starts empty
ConcNext ==
  \/ \E p \in Procs, jsonOk \in BOOLEAN, name \in RegNames, callback \in ConcCallbacks :
       cRegister(p, jsonOk, name, callback)
  \/ \E p \in Procs, jsonOk \in BOOLEAN, name \in RegNames : cDeregister(p, jsonOk, name)
  \/ \E p \in Procs : cLock(p)
  \/ \E p \in Procs : cStore(p)
  \/ \E p \in Procs : cMem(p)
  \/ \E p \in Procs : cTruncate(p)
  \/ \E p \in Procs : cWrite(p)
  \/ \E p \in Procs : cReply(p)
  \/ \E p \in Procs, op \in Readers : cRead(p, op)
  \/ \E p \in Procs : cSnapshot(p)

ConcSpec == Init /\ [][ConcNext]_vars

\* the calls of the store, on two stores that start empty
StoreNext ==
  \/ \E name \in StoreNames, u \in StoreURLs : sPut(name, u)
  \/ \E name \in StoreNames : sRemove(name)
  \/ sAll
  \/ \E w \in {"mem", "file"}, name \in StoreNames, u \in StoreURLs, add \in BOOLEAN :
       sEdit(w, name, u, add)

StoreSpec == Init /\ [][StoreNext]_vars

\* the lines a file found on disk may have: entries, and lines that are not
DiskLines ==
  {NameA \o <<"=">> \o U1, NameB \o <<"=">> \o U2,
   NameA, NameA \o <<"=">> \o UQuery, NameB \o <<"=">> \o UBad, <<>>}

\* lines ls joined, each with its terminator, the last one with it or not
RECURSIVE joinLines(_, _)
joinLines(ls, final) ==
  IF ls = <<>> THEN <<>>
  ELSE IF Len(ls) = 1 /\ ~final THEN Head(ls)
  ELSE Head(ls) \o <<"\n">> \o joinLines(Tail(ls), final)

DiskFiles ==
  {joinLines(ls, final) :
     ls \in UNION {[1..k -> DiskLines] : k \in 0..MaxLines}, final \in BOOLEAN}

\* the file-backed proxy over a file that was written by something else:
\* it is loaded at a restart and by every request
LoadInit ==
  /\ backend = "file"
  /\ upstreams = EmptyMap
  /\ file \in DiskFiles
  /\ ops = 0
  /\ last = NoReq
  /\ pc = "idle"
  /\ snap = EmptyMap
  /\ snapErr = NoErr
  /\ order = <<>>
  /\ task = EmptyMap
  /\ outcome = EmptyMap
  /\ calls = EmptyMap
  /\ got = 0
  /\ latestSuccess = NilResp
  /\ e = NilError
  /\ cancelled = FALSE
  /\ preCancel = [fired |-> FALSE, got |-> 0, returned |-> {}]
  /\ resp = NoResponse
  /\ NoHandlers
  /\ NoCalls

LoadNext ==
  \/ \E jsonOk \in BOOLEAN, name \in RegNames, callback \in Callbacks :
       register(jsonOk, name, callback)
  \/ \E jsonOk \in BOOLEAN, name \in RegNames : deregister(jsonOk, name)
  \/ list
  \/ restart
  \/ \E bodyOk \in BOOLEAN : proxyBegin(bodyOk)

LoadSpec == LoadInit /\ [][LoadNext]_vars

\* The registry handlers over every body that decodes: a name may be empty,
\* a callback may be a bare word (TestRegister posts "baz") or lack its host
NameEmpty == <<>>
UBare == <<"baz">>
UNoHost == <<"http://", "/p">>
EntryNames == RegNames \cup {NameEmpty}
EntryCallbacks == {U1, UBare, UNoHost, UBad}

EntryNext ==
  \/ \E jsonOk \in BOOLEAN, name \in EntryNames, callback \in EntryCallbacks :
       register(jsonOk, name, callback)
  \/ \E jsonOk \in BOOLEAN, name \in EntryNames : deregister(jsonOk, name)
  \/ list

EntrySpec == Init /\ [][EntryNext]_vars

\* every route of the server: the registry handlers, the dispatch and health
RouteNext == Next \/ health
RouteSpec == Init /\ [][RouteNext]_vars


----------------------------------------------------------------------------
(* Vocabulary of the properties *)

\* the outcome classes of the specification, written from its own bounds
SuccessRange == 200..399
Finished == pc \in {"done", "aborted"}
Returned(n) == task[n] \in {"sending", "exit"}
IsSuccessReply(n) ==
  Returned(n) /\ outcome[n].kind = "reply" /\ outcome[n].status \in SuccessRange
IsNonSuccessReply(n) ==
  Returned(n) /\ outcome[n].kind = "reply" /\ outcome[n].status \notin SuccessRange
IsTransportError(n) == Returned(n) /\ outcome[n].kind = "transport"
Upstreams == DOMAIN task
OnePerUpstream == calls = [n \in Upstreams |-> 1]
\* the content of the registry now
Cur == storageAll(backend, upstreams, file)
\* and after the step
CurNext == storageAll(backend', upstreams', file')

----------------------------------------------------------------------------
(* C1: a dispatch whose snapshot is empty answers 400 and starts no forward
   goroutine: no outbound call is made in it *)
C1_EmptySnapshot ==
  (pc # "idle" /\ snapErr = NoErr /\ DOMAIN snap = {})
    => /\ pc = "rejected"
       /\ resp.status = 400
       /\ task = EmptyMap
       /\ calls = EmptyMap

C1_Witness ==
  /\ pc = "rejected" /\ snapErr = NoErr /\ DOMAIN snap = {} /\ resp.status = 400
  /\ last.op = "deregister" /\ last.status = 204 /\ last.pre.m # EmptyMap

(* C2: when every upstream of the snapshot replied with a status in
   [200,400) and the inbound request was not cancelled, the dispatch answers
   with the status of one of these replies, and exactly one outbound call per
   upstream was made *)
C2_AllSuccess ==
  (Finished /\ ~cancelled /\ \A n \in Upstreams : IsSuccessReply(n))
    => /\ pc = "done"
       /\ resp.kind = "upstream"
       /\ resp.status \in SuccessRange
       /\ \E n \in Upstreams : resp.from = n /\ resp.status = outcome[n].status
       /\ OnePerUpstream
       /\ Cardinality(DOMAIN calls) = Cardinality(DOMAIN snap)

C2_Witness ==
  /\ pc = "done" /\ ~cancelled
  /\ Cardinality(Upstreams) = 2
  /\ \A n \in Upstreams : IsSuccessReply(n)
  /\ \E n, m \in Upstreams : outcome[n].status = 200 /\ outcome[m].status = 399
  /\ resp.status = 399

(* C3: when a forward ended with a transport error and the inbound request
   was not cancelled, the dispatch answers 500, whatever the other upstreams
   returned and in whatever order the outcomes arrived *)
C3_TransportError ==
  (Finished /\ ~cancelled /\ \E n \in Upstreams : IsTransportError(n))
    => /\ resp.status = 500
       /\ resp.kind = "error"
       /\ resp.status \notin SuccessRange

C3_Witness ==
  /\ pc = "done" /\ ~cancelled /\ Len(order) = 2
  /\ IsTransportError(order[1])
  /\ IsSuccessReply(order[2])
  /\ resp.status = 500


(* C4, as stated: when no forward ended with a transport error, some upstream
   replied with a status outside [200,400) and the inbound request was not
   cancelled, the dispatch answers with the status of one of these replies,
   passed through as it is *)
C4_PassThrough ==
  (/\ Finished /\ ~cancelled
   /\ ~ \E n \in Upstreams : IsTransportError(n)
   /\ \E n \in Upstreams : IsNonSuccessReply(n))
    => /\ resp.kind = "upstream"
       /\ \E n \in Upstreams : IsNonSuccessReply(n) /\ resp.status = outcome[n].status

(* C4, amended: in that case the dispatch answers 500 with an error text that
   carries the status of one of the non-success replies; the reply itself is
   not passed through *)
C4_Wrapped ==
  (/\ Finished /\ ~cancelled
   /\ ~ \E n \in Upstreams : IsTransportError(n)
   /\ \E n \in Upstreams : IsNonSuccessReply(n))
    => /\ pc = "done"
       /\ resp.status = 500
       /\ resp.kind = "error"
       /\ resp.err.kind = "status"
       /\ \E n \in Upstreams :
            IsNonSuccessReply(n) /\ resp.err.from = n /\ resp.err.status = outcome[n].status

C4_Witness ==
  /\ pc = "done" /\ ~cancelled /\ Cardinality(Upstreams) = 2
  /\ \E n, m \in Upstreams :
       /\ IsSuccessReply(n) /\ outcome[n].status = 200
       /\ IsNonSuccessReply(m) /\ outcome[m].status = 400
  /\ resp.status = 500 /\ resp.err.status = 400

\* the class of a written response, and the class the precedence of the
\* specification gives to an assignment of outcomes
ClassOf(r) ==
  IF r.kind = "upstream"
    THEN IF r.status \in SuccessRange THEN "success" ELSE "nonsuccess"
    ELSE "failure"
SpecClass ==
  IF \E n \in Upstreams : IsTransportError(n) THEN "failure"
  ELSE IF \E n \in Upstreams : IsNonSuccessReply(n) THEN "nonsuccess"
  ELSE "success"
CodeClass ==
  IF \E n \in Upstreams : IsTransportError(n) \/ IsNonSuccessReply(n) THEN "failure"
  ELSE "success"

(* C5, as stated: without cancellation the class of the result depends on the
   outcome classes of the upstreams only, not on the order of arrival: failure
   if any transport error, else the non-success reply if any, else a success
   reply *)
C5_SpecPrecedence ==
  (pc = "done" /\ ~cancelled) => ClassOf(resp) = SpecClass

(* C5, amended: without cancellation the class of the result depends on the
   outcome classes of the upstreams only, not on the order of arrival: failure
   (500) if any transport error or any non-success reply, else a success
   reply *)
C5_OrderIndependent ==
  (pc = "done" /\ ~cancelled)
    => /\ ClassOf(resp) = CodeClass
       /\ ClassOf(resp) = "failure" <=> resp.status = 500
       /\ ClassOf(resp) = "success" => \E n \in Upstreams : resp.from = n /\ IsSuccessReply(n)

C5_Witness ==
  /\ pc = "done" /\ ~cancelled /\ Len(order) = 2
  /\ IsNonSuccessReply(order[1])
  /\ IsSuccessReply(order[2])
  /\ ClassOf(resp) = "failure"

(* C6: when the inbound request is cancelled before any forward has returned,
   the dispatch answers 500 with the cancellation as its reason, never with a
   success or with an upstream's status, and the handler does not wait for a
   forward: it can take the cancellation case of its select, or has left the
   loop and can answer *)
C6_CancelBeforeReply ==
  /\ (Finished /\ preCancel.fired /\ preCancel.returned = {})
       => /\ resp.status = 500
          /\ resp.kind = "error"
          /\ resp.err.kind \in {"context canceled", "canceled"}
  /\ (preCancel.fired /\ preCancel.returned = {} /\ pc = "wait")
       => ENABLED (recvDone \/ proxyEnd)

C6_Witness ==
  /\ pc = "aborted" /\ preCancel.fired /\ preCancel.returned = {}
  /\ Cardinality(Upstreams) = 2
  /\ \A n \in Upstreams : task[n] = "calling"
  /\ resp.status = 500


(* C7, as stated: when the cancellation signal fires while the aggregator has
   received fewer than N outcomes, the dispatch ends ABORTED with the
   cancellation as the reason of its failure and receives no further outcome;
   it never completes as DONE after the signal fired *)
C7_AlwaysAborted ==
  (Finished /\ preCancel.fired /\ preCancel.got < N)
    => /\ pc = "aborted"
       /\ got = preCancel.got
       /\ resp = errResp(ctxErr)

(* C7, amended: when the aggregator takes the cancellation case of its select,
   as it must once the signal has fired, fewer than N outcomes were received
   and no forward is offering an outcome, the dispatch ends ABORTED with 500
   and the cancellation as its reason; an ABORTED dispatch receives no further
   outcome and keeps its response.  While a forward is offering an outcome the
   select may take that outcome instead. *)
Offering == \E n \in Upstreams : task[n] = "sending"
C7_AbortedWhenObserved ==
  /\ [][(pc = "wait" /\ cancelled /\ got < N /\ ~Offering /\ (pc' # pc \/ got' # got))
          => (pc' = "aborted" /\ got' = got /\ resp' = errResp(ctxErr))]_vars
  /\ [][pc = "aborted"
          => (pc' = "aborted" /\ got' = got /\ order' = order /\ resp' = resp)]_vars
  /\ [](pc = "aborted" => (cancelled /\ got < N /\ resp = errResp(ctxErr)))

C7_Witness ==
  /\ pc = "aborted" /\ Cardinality(Upstreams) = 2
  /\ preCancel.got = 1 /\ got = 1
  /\ \E n \in Upstreams : task[n] = "sending" /\ IsSuccessReply(n)
  /\ IsSuccessReply(order[1])

(* C8: under fair scheduling, every outbound call returning, every dispatch
   that entered the aggregation loop ends DONE or ABORTED with a response
   written *)
C8_Terminates ==
  (pc = "wait") ~> (Finished /\ resp.kind # "none")

C8_Witness ==
  /\ pc = "done" /\ Cardinality(Upstreams) = 2 /\ ~cancelled
  /\ got = 2 /\ resp.kind # "none"
  /\ \E n \in Upstreams : IsTransportError(n)


\* the registry as it stands is the one the request served last left
Target(callback) == urlParse(callback).u
NamedIn(body, name) == {i \in DOMAIN body.items : body.items[i].Name = name}

(* C9: for both backends, after register(A, u1) followed by register(A, u2)
   the store's all() and list have exactly one entry named A, its target is
   u2, and every other entry is as it was *)
C9_Overwrite ==
  (/\ last.op = "register" /\ last.status = 204
   /\ last.pre.err = NoErr /\ last.name \in DOMAIN last.pre.m)
    => /\ Cur.err = NoErr
       /\ DOMAIN Cur.m = DOMAIN last.pre.m
       /\ Cur.m[last.name] = Target(last.callback)
       /\ \A n \in DOMAIN Cur.m \ {last.name} : Cur.m[n] = last.pre.m[n]
       /\ \A o \in Orders(DOMAIN Cur.m) :
            LET body == listing(Cur.m, o)
            IN /\ Cardinality(NamedIn(body, last.name)) = 1
               /\ \A i \in NamedIn(body, last.name) :
                    body.items[i].Callback = urlString(Target(last.callback))

\* the same, for targets the line format can hold: no '=' in the callback
C9_OverwritePlain ==
  (/\ last.op = "register" /\ last.status = 204
   /\ last.pre.err = NoErr /\ last.name \in DOMAIN last.pre.m
   /\ ~ \E i \in DOMAIN last.callback : last.callback[i] = "=")
    => /\ Cur.err = NoErr
       /\ DOMAIN Cur.m = DOMAIN last.pre.m
       /\ Cur.m[last.name] = Target(last.callback)

(* C10: for both backends, a deregister of a name that is not in the registry
   answers 204 and leaves the entries of the registry as they were; after a
   deregister that answered 204 the name is not in the registry, so that a
   second deregister of it changes nothing *)
C10_DeregisterUnknown ==
  /\ (/\ last.op = "deregister" /\ last.status # 400
      /\ last.pre.err = NoErr /\ last.name \notin DOMAIN last.pre.m)
       => /\ last.status = 204
          /\ Cur.err = NoErr
          /\ Cur.m = last.pre.m
  /\ (last.op = "deregister" /\ last.status = 204)
       => /\ Cur.err = NoErr
          /\ last.name \notin DOMAIN Cur.m
          /\ Cur.m = MapDelete(last.pre.m, last.name)

C10_Witness ==
  /\ backend = "file"
  /\ last.op = "deregister" /\ last.status = 204
  /\ last.name \notin DOMAIN last.pre.m
  /\ last.pre.m # EmptyMap
  /\ Cur.m = last.pre.m


\* what the registry holds after the request in r, served with 204 on the
\* content r.pre.m
After(r) ==
  IF r.op = "register" THEN MapPut(r.pre.m, r.name, Target(r.callback))
  ELSE IF r.op = "deregister" THEN MapDelete(r.pre.m, r.name)
  ELSE r.pre.m
HasEq(str) == \E i \in DOMAIN str : str[i] = "="
RestartStep == ops' # ops /\ last'.op = "restart"
Written == last.op \in {"register", "deregister"} /\ last.status = 204 /\ last.pre.err = NoErr

(* C11: on the file backend, a store constructed over the same file after
   registers and deregisters that answered 204 returns from all() the mapping
   these requests built: what was registered is there with its target, what
   was deregistered is not *)
C11_Restart ==
  [][(RestartStep /\ backend = "file" /\ Written)
       => (/\ last'.status = 0
           /\ CurNext.err = NoErr
           /\ CurNext.m = After(last))]_vars

\* the same, for targets the line format can hold: no '=' in the callback
C11_RestartPlain ==
  [][(RestartStep /\ backend = "file" /\ Written /\ ~HasEq(last.callback))
       => (/\ last'.status = 0
           /\ CurNext.err = NoErr
           /\ CurNext.m = After(last))]_vars


\* the lines of a text: what stands between two terminators, before the first
\* or after the last, except an empty rest after the last terminator
Terminators(f) == {i \in DOMAIN f : f[i] = "\n"}
TextLines(f) ==
  {SubSeq(f, a + 1, b - 1) :
     <<a, b>> \in {ab \in (Terminators(f) \cup {0}) \X (Terminators(f) \cup {Len(f) + 1}) :
                     /\ ab[1] < ab[2]
                     /\ ~ \E i \in Terminators(f) : ab[1] < i /\ i < ab[2]
                     /\ ~ (ab[1] = Len(f) /\ ab[2] = Len(f) + 1)}}
\* not of the form name=url: not exactly one '=', or a url that does not parse
Malformed(line) ==
  \/ Cardinality({i \in DOMAIN line : line[i] = "="}) # 1
  \/ \E i \in DOMAIN line : line[i] = "%"
HasMalformed(f) == \E l \in TextLines(f) : Malformed(l)

(* C12: loading is all or nothing: when a line of the file is not of the
   form name=url, parseMap returns an error and no mapping, not the entries
   of the other lines, and the construction of a file-backed store fails *)
C12_AllOrNothing ==
  /\ HasMalformed(file)
       => /\ parseMap(file).err # NoErr
          /\ parseMap(file).m = EmptyMap
          /\ newRegStorageFile(TRUE, file).err # NoErr
  /\ (HasMalformed(file) /\ last.op = "restart") => last.status = 1
  /\ (HasMalformed(file) /\ last.op = "list")
       => (last.status = 500 /\ last.body.json = "text")

C12_Witness ==
  /\ last.op = "restart" /\ last.status = 1
  /\ parseMap(file).m = EmptyMap
  /\ \E l \in TextLines(file) : ~Malformed(l)
  /\ \E l \in TextLines(file) : \E i \in DOMAIN l : l[i] = "%"

\* a callback that is no URL
Unparsable(str) == \E i \in DOMAIN str : str[i] = "%"

(* C13: a register whose body is not valid JSON or whose callback is no URL
   answers 400 and leaves the registry as it was; every other register
   answers 204 and its entry is in the registry afterwards *)
C13_Register ==
  [][\A jsonOk \in BOOLEAN, name \in RegNames, callback \in Callbacks :
       register(jsonOk, name, callback)
         => IF ~jsonOk \/ Unparsable(callback)
              THEN last'.status = 400 /\ regVars' = regVars
              ELSE /\ last'.status = 204
                   /\ CurNext.err = NoErr
                   /\ name \in DOMAIN CurNext.m
                   /\ CurNext.m[name] = Target(callback)]_vars

\* a step of register
RegisterStep == ops' # ops /\ last'.op = "register"

\* the same, for callbacks the line format can hold, on a registry that loads
C13_RegisterPlain ==
  /\ [][(RegisterStep /\ (Unparsable(last'.callback) \/ last'.status = 400))
          => (last'.status = 400 /\ regVars' = regVars)]_vars
  /\ [][(/\ RegisterStep /\ last'.status # 400
          /\ ~HasEq(last'.callback) /\ Cur.err = NoErr)
          => /\ last'.status = 204
             /\ CurNext.err = NoErr
             /\ last'.name \in DOMAIN CurNext.m
             /\ CurNext.m[last'.name] = Target(last'.callback)]_vars

(* C14: in every state of the registry, the empty one included, list answers
   200 with a JSON array that has exactly one element {name, callback} for
   each entry of the snapshot and no other element *)
C14_ListArray ==
  last.op = "list"
    => /\ last.status = 200
       /\ last.body.json = "array"
       /\ Len(last.body.items) = Cardinality(DOMAIN last.pre.m)
       /\ \A n \in DOMAIN last.pre.m :
            /\ Cardinality(NamedIn(last.body, n)) = 1
            /\ \A i \in NamedIn(last.body, n) :
                 last.body.items[i].Callback = urlString(last.pre.m[n])

\* the same, for a registry that loads and is not empty
C14_ListNonEmpty ==
  (last.op = "list" /\ last.pre.err = NoErr /\ last.pre.m # EmptyMap)
    => /\ last.status = 200
       /\ last.body.json = "array"
       /\ Len(last.body.items) = Cardinality(DOMAIN last.pre.m)
       /\ \A n \in DOMAIN last.pre.m :
            /\ Cardinality(NamedIn(last.body, n)) = 1
            /\ \A i \in NamedIn(last.body, n) :
                 last.body.items[i].Callback = urlString(last.pre.m[n])

(* C15: registry writes are mutually exclusive: in no state are two handlers
   inside the store's put or remove at the same time *)
C15_MutualExclusion == Cardinality({p \in Procs : InStore(p)}) <= 1

\* the same, for the puts of register alone
C15_PutsExclusive ==
  Cardinality({p \in Procs : InStore(p) /\ proc[p].op = "register"}) <= 1

\* no handler is serving a request
Quiescent == \A p \in Procs : proc[p].pc = "idle"
\* the requests answered so far were all registers that passed the
\* validation, of names that differ from one another
DistinctRegisters ==
  /\ hist # <<>>
  /\ \A i \in DOMAIN hist : hist[i].op = "register" /\ hist[i].status # 400
  /\ \A i, j \in DOMAIN hist : hist[i].name = hist[j].name => i = j

(* C16: when registers of names that differ from one another ran
   concurrently and all have returned, every one answered 204 and every
   registered name is in the registry with its target *)
C16_NoneLost ==
  (Quiescent /\ DistinctRegisters)
    => /\ \A i \in DOMAIN hist : hist[i].status = 204
       /\ Cur.err = NoErr
       /\ \A i \in DOMAIN hist :
            /\ hist[i].name \in DOMAIN Cur.m
            /\ Cur.m[hist[i].name] = Target(hist[i].callback)

\* the same, for callbacks the line format can hold
C16_NoneLostPlain ==
  (/\ Quiescent /\ DistinctRegisters
   /\ \A i \in DOMAIN hist : ~HasEq(hist[i].callback))
    => /\ \A i \in DOMAIN hist : hist[i].status = 204
       /\ Cur.err = NoErr
       /\ \A i \in DOMAIN hist :
            /\ hist[i].name \in DOMAIN Cur.m
            /\ Cur.m[hist[i].name] = Target(hist[i].callback)

\* the registry after the requests of hist applied one after the other in the
\* order ix, to the registry m
RECURSIVE Replay(_, _)
Replay(ix, m) ==
  IF ix = <<>> THEN m
  ELSE LET h == hist[Head(ix)]
       IN Replay(Tail(ix), IF h.op = "register" THEN MapPut(m, h.name, Target(h.callback))
                           ELSE MapDelete(m, h.name))
SerialOrders ==
  {ix \in [DOMAIN hist -> DOMAIN hist] : \A i, j \in DOMAIN hist : ix[i] = ix[j] => i = j}

\* registers and deregisters that passed the validation, each deregister
\* issued after a register of its name had answered 204
RegistersAndDeregisters ==
  /\ hist # <<>>
  /\ \A i \in DOMAIN hist : hist[i].status # 400 /\ hist[i].after
  /\ \A p \in Procs : proc[p].pc # "idle" => proc[p].after

(* C17: when registers ran concurrently with deregisters, each deregister
   issued for a name whose register had answered 204, every request answers
   204 and the registry in the end is the one that applying all the requests
   in some serial order gives *)
C17_Serial ==
  ((Quiescent \/ crashed) /\ RegistersAndDeregisters)
    => /\ ~crashed
       /\ \A i \in DOMAIN hist : hist[i].status = 204
       /\ Cur.err = NoErr
       /\ \E ix \in SerialOrders : Cur.m = Replay(ix, EmptyMap)

(* C18: when an upstream of the snapshot replied with a status outside
   [200,400) and the inbound request was not cancelled, the dispatch answers
   500, whatever the other upstreams did *)
C18_OneFail ==
  (Finished /\ ~cancelled /\ \E n \in Upstreams : IsNonSuccessReply(n))
    => resp.status = 500

C18_Witness ==
  /\ pc = "done" /\ ~cancelled /\ resp.status = 500
  /\ \E n \in Upstreams : IsNonSuccessReply(n) /\ outcome[n].status = 400
  /\ \E n \in Upstreams : IsSuccessReply(n) /\ outcome[n].status = 200

(* C19: every deregister whose body is valid JSON answers 204, in every
   state of the store and for both backends, the name registered or not *)
C19_Always204 ==
  [][\A name \in RegNames : deregister(TRUE, name) => last'.status = 204]_vars

\* the same, on a registry that loads
C19_204WhenLoads ==
  [][\A name \in RegNames :
       (deregister(TRUE, name) /\ Cur.err = NoErr) => last'.status = 204]_vars

\* a step of a registry handler that called the store
StoreCalled ==
  /\ ops' # ops
  /\ last'.op \in {"register", "deregister", "list"}
  /\ last'.status # 400

(* C20: when the store returns an error, the handler that called it answers
   500 with the text of that error, not 204, 200 or the status of an
   upstream, and the store is left as it was; a dispatch whose snapshot read
   failed makes no outbound call *)
C20_ErrorsSurface ==
  /\ [][(StoreCalled /\ Cur.err # NoErr)
          => /\ last'.status = 500
             /\ last'.body = textBody(Cur.err)
             /\ regVars' = regVars]_vars
  /\ [][(pc = "idle" /\ pc' # "idle" /\ Cur.err # NoErr)
          => /\ resp'.status = 500
             /\ resp'.kind = "error"
             /\ resp'.err.kind = Cur.err
             /\ snapErr' = Cur.err]_vars
  /\ [](snapErr # NoErr
          => /\ pc = "rejected"
             /\ resp.status = 500
             /\ task = EmptyMap
             /\ calls = EmptyMap)

C20_Witness ==
  /\ pc = "rejected" /\ snapErr # NoErr /\ resp.status = 500
  /\ calls = EmptyMap
  /\ last.op = "deregister" /\ last.status = 500 /\ last.body = textBody(snapErr)


\* the dispatch entered its aggregation loop
Dispatching == pc \in {"wait", "done", "aborted"}
\* forward tasks whose outcome the aggregator has not received
Outstanding == Cardinality({n \in Upstreams : task[n] # "exit"})
Received == {order[i] : i \in DOMAIN order}

(* C21: throughout a dispatch over a snapshot of N upstreams, the outcomes
   the aggregator received and the outstanding ones add up to N; a forward
   task publishes at most one outcome, on one channel only: rc for a reply
   with a status in [200,400), ec for everything else; and the dispatch is
   DONE only after exactly N outcomes were received *)
C21_Counting ==
  /\ Dispatching
       => /\ got + Outstanding = N
          /\ Len(order) = got
          /\ \A i, j \in DOMAIN order : order[i] = order[j] => i = j
          /\ \A n \in Upstreams : task[n] = "exit" <=> n \in Received
  /\ \A n \in Upstreams :
       Returned(n) => /\ publish(outcome[n]).chan \in {"rc", "ec"}
                      /\ publish(outcome[n]).chan = "rc" <=> IsSuccessReply(n)
  /\ pc = "done" => (got = N /\ Outstanding = 0 /\ Received = DOMAIN snap)

C21_Witness ==
  /\ pc = "done" /\ N = 2 /\ got = 2
  /\ order = <<NameB, NameA>>
  /\ IsSuccessReply(NameA) /\ IsNonSuccessReply(NameB)

(* C22: a dispatch goes from PENDING to DONE or to ABORTED and writes one
   response: DONE and ABORTED are terminal, the response is written when one
   of them (or a rejection) is reached and not before, and nothing that
   happens afterwards, an outcome becoming available included, changes it *)
C22_Terminal ==
  /\ [][(pc \in {"done", "aborted"}) => (pc' = pc /\ resp' = resp)]_vars
  /\ [][resp.kind # "none" => resp' = resp]_vars
  /\ [][pc = "wait" => pc' \in {"wait", "done", "aborted"}]_vars
  /\ [](pc \in {"done", "aborted", "rejected"} <=> resp.kind # "none")

C22_Witness ==
  /\ pc = "aborted" /\ resp = errResp(ctxErr)
  /\ \E n \in Upstreams :
       task[n] = "sending" /\ n \notin preCancel.returned /\ outcome[n].kind = "canceled"
  /\ \E n \in Upstreams : task[n] = "sending" /\ IsSuccessReply(n)

(* C23, as stated: in every dispatch over a snapshot that is not empty,
   whatever the outcomes, each upstream of the snapshot receives exactly one
   outbound call *)
C23_ExactlyOne ==
  (pc \in {"done", "aborted", "rejected"} /\ snapErr = NoErr /\ snap # EmptyMap)
    => calls = [n \in DOMAIN snap |-> 1]

(* C23, amended: no upstream is called more than once and none outside the
   snapshot, whatever the outcomes; when the dispatch is DONE each upstream
   of the snapshot has received exactly one call; a dispatch that is
   rejected, the one whose body cannot be read included, calls none *)
C23_SinglePass ==
  /\ \A n \in DOMAIN calls : n \in DOMAIN snap /\ calls[n] = 1
  /\ pc = "done" => calls = [n \in DOMAIN snap |-> 1]
  /\ pc = "rejected" => calls = EmptyMap

C23_Witness ==
  /\ pc = "done" /\ Cardinality(DOMAIN snap) = 2
  /\ calls = [n \in DOMAIN snap |-> 1]
  /\ \E n \in Upstreams : IsTransportError(n)
  /\ \E n \in Upstreams : IsNonSuccessReply(n)

(* C24: the upstreams a dispatch calls and the number of outcomes it waits
   for are those of the snapshot taken when it started: a register or
   deregister served afterwards changes neither *)
C24_SnapshotFixed ==
  /\ [][pc # "idle" => snap' = snap]_vars
  /\ [][Dispatching => DOMAIN task' = DOMAIN task]_vars
  /\ [](Dispatching
          => /\ DOMAIN task = DOMAIN snap
             /\ DOMAIN calls \subseteq DOMAIN snap
             /\ N = Cardinality(DOMAIN snap)
             /\ got <= Cardinality(DOMAIN snap))

C24_Witness ==
  /\ pc = "done" /\ got = N
  /\ Cur.err = NoErr /\ DOMAIN Cur.m # DOMAIN snap
  /\ last.op \in {"register", "deregister"} /\ last.status = 204
  /\ calls = [n \in DOMAIN snap |-> 1]


\* a call of the store was made in the step
StoreCall(opsSet) == call'.n # call.n /\ call'.op \in opsSet
\* the map a caller holds, as it reads after the step
ViewNext(w) == IF held'[w].alias THEN upstreams' ELSE held'[w].m

(* C25: for both stores, the map All returned is no alias of the state of
   the store: a Put or Remove made afterwards does not change the map that
   was returned, and adding or deleting keys in that map does not change what
   a later All returns *)
C25_NoAlias ==
  /\ [][StoreCall({"put", "remove"})
          => \A w \in {"mem", "file"} : ViewNext(w) = View(w)]_vars
  /\ [][StoreCall({"edit"})
          => /\ storageAll("memory", upstreams', file') = storageAll("memory", upstreams, file)
             /\ storageAll("file", upstreams', file') = storageAll("file", upstreams, file)]_vars

C25_Witness ==
  /\ call.op = "edit" /\ call.n = 3
  /\ held.mem.taken /\ held.file.taken
  /\ upstreams # EmptyMap
  /\ View("mem") # upstreams
  /\ parseMap(file).err = NoErr /\ View("file") # parseMap(file).m

(* C28: the two stores are equivalent to their caller: after every sequence
   of Put, Remove and All whose names and URLs hold neither '=' nor a newline,
   on stores that start empty, every Put and Remove returned no error in both
   and All returns the same mapping in both *)
C28_Equivalent ==
  call.plain
    => /\ call.mem = NoErr
       /\ call.file = NoErr
       /\ storageAll("file", upstreams, file) = storageAll("memory", upstreams, file)
       /\ call.op = "all" => (held.file.err = NoErr /\ held.file.m = held.mem.m)

\* the two stores return the same mapping
Agree == storageAll("file", upstreams, file) = storageAll("memory", upstreams, file)
AgreeNext == storageAll("file", upstreams', file') = storageAll("memory", upstreams', file')

\* the same, step by step and for entries whose line is shorter than the
\* buffer of the Scanner: such a call keeps two stores that agree in agreement
C28_EquivalentShort ==
  [][(/\ StoreCall({"put", "remove"}) /\ Agree
      /\ Plain(call'.name) /\ Plain(urlString(call'.u))
      /\ Len(call'.name) + 1 + Len(urlString(call'.u)) < MaxScanTokenSize)
      => (call'.mem = NoErr /\ call'.file = NoErr /\ AgreeNext)]_vars

----------------------------------------------------------------------------
\* the steps left to a reader can be taken in this state
ReaderCanStep(p) ==
  /\ ~crashed
  /\ proc[p].pc = "read" => readerMayRun(writeLock)
  /\ proc[p].pc \in {"read", "reply"}

\* C26: list and proxy never hold p.writeLock, and never wait for it: a
\* reader that is about to call p.storage.All() can take that step, and one
\* that has its snapshot can answer, whoever holds the lock
C26_ReadersLockFree ==
  \A p \in Procs :
    (proc[p].op \in Readers /\ ~crashed) =>
      /\ writeLock # p
      /\ ReaderCanStep(p)

\* a reader took its snapshot while a register held the lock, and that
\* register is still inside its critical section
C26_Witness ==
  \E p \in Procs, q \in Procs :
    /\ proc[p].op \in Readers
    /\ proc[p].pc = "reply"
    /\ proc[p].underLock
    /\ writeLock = q
    /\ proc[q].op = "register"
    /\ proc[q].pc \in {"store", "mem", "write", "fill"}
    /\ ~crashed

----------------------------------------------------------------------------
\* the handler q serves the one registration in flight: no other handler is
\* in register or deregister, and no deregister entered the store before
OneRegistration(q) ==
  /\ proc[q].op = "register"
  /\ ~HasEq(proc[q].callback)
  /\ \A r \in Procs \ {q} : proc[r].op \notin {"register", "deregister"}
  /\ \A i \in DOMAIN hist :
       /\ hist[i].op = "deregister" => hist[i].status = 400
       /\ ~HasEq(hist[i].callback)

\* the registry before the registration q serves: what the store holds until
\* q enters it, what q found there afterwards
Before(q) == IF proc[q].pc \in {"lock", "store"} THEN Cur.m ELSE proc[q].pre

\* C27: a snapshot list or proxy takes while one registration is in flight
\* is the registry before that registration or the registry after it, and
\* the read neither fails nor ends the process
C27_BeforeOrAfter ==
  [][\A p \in Procs, q \in Procs :
       (/\ OneRegistration(q)
        /\ proc[p].op \in Readers
        /\ proc[p].pc = "read"
        /\ proc'[p].pc = "reply")
         => /\ ~crashed'
            /\ proc'[p].ret = NoErr
            /\ proc'[p].mm \in {Before(q),
                                MapPut(Before(q), proc[q].name, proc[q].u)}]_vars

----------------------------------------------------------------------------
\* the store is file-backed and its file does not load
LoadFails == backend = "file" /\ parseMap(file).err # NoErr

(* C29: on the file backend a Put or Remove whose load of the file fails
   returns the error of the load, which the handler answers with 500, and
   does not write: the file holds after the call what it held before *)
C29_FailedLoadKeepsFile ==
  [][(StoreCalled /\ last'.op \in {"register", "deregister"} /\ LoadFails)
       => /\ file' = file
          /\ last'.status = 500
          /\ last'.body = textBody(parseMap(file).err)]_vars

\* the second of two requests, a register or a deregister, failed on a file
\* with a malformed line, and the file still holds that line
C29_Witness ==
  /\ LoadFails
  /\ HasMalformed(file)
  /\ last.op \in {"register", "deregister"}
  /\ last.status = 500
  /\ last.pre.err = parseMap(file).err
  /\ ops >= 2

----------------------------------------------------------------------------
\* a name and a target an UpstreamEntry may have
WellFormed(name, u) == name # <<>> /\ u.Scheme # "" /\ u.Host # ""

(* C30: every entry of the registry has a non-empty name and a target with a
   scheme and a host, and a register that answered 204 was given such a name
   and such a callback *)
C30_WellFormedEntries ==
  /\ Cur.err = NoErr => \A n \in DOMAIN Cur.m : WellFormed(n, Cur.m[n])
  /\ (last.op = "register" /\ last.status = 204)
       => WellFormed(last.name, Target(last.callback))

----------------------------------------------------------------------------
\* the forward goroutine of the upstream n has returned
Exited(n) == n \in DOMAIN task /\ task[n] = "exit"

(* C31: under fair scheduling, every outbound call returning, every forward
   goroutine a dispatch started returns, also when the dispatch was aborted
   before it received the goroutine's outcome *)
C31_ForwardsTerminate ==
  \A n \in RegNames : (n \in DOMAIN task /\ task[n] = "spawned") ~> Exited(n)

----------------------------------------------------------------------------
(* C32: the cancellation of the inbound request does not end an outbound
   call: no call returns the error of the inbound context, a call in flight
   at the cancellation returns what the upstream or the client's own timeout
   gives *)
C32_ForwardsNotCancelled ==
  \A n \in DOMAIN outcome :
    task[n] \in {"sending", "exit"} => outcome[n] \in DoResults(n)

----------------------------------------------------------------------------
(* C33: p.writeLock is held only by a register that is between its Lock and
   its return, and is free whenever no register is executing: every path
   of register that took the lock, the one where Put returned an error
   included, gives it back *)
C33_LockReleased ==
  /\ writeLock # 0
       => /\ proc[writeLock].op = "register"
          /\ proc[writeLock].pc \in {"store", "mem", "write", "fill", "reply"}
  /\ (\A p \in Procs : proc[p].op # "register") => writeLock = 0

\* a register took the lock after an earlier register was answered 500
C33_Witness ==
  /\ \E i \in DOMAIN hist : hist[i].op = "register" /\ hist[i].status = 500
  /\ writeLock # 0
  /\ proc[writeLock].op = "register"
  /\ proc[writeLock].pc = "store"

----------------------------------------------------------------------------
\* the handlers that are at their access of the map of the memory store
MapWriters == {p \in Procs : proc[p].pc = "mem"}

(* C34: with the memory backend no two writes of the map (Put, Remove)
   overlap, and no read of it (the maps.Clone of All, called by list and
   proxy) overlaps a write *)
C34_WritesApart == backend = "memory" => Cardinality(MapWriters) <= 1
C34_ReadsApart ==
  [][\A p \in Procs :
       (backend = "memory" /\ proc[p].pc = "read" /\ proc'[p].pc = "reply")
         => MapWriters = {}]_vars
C34_RaceFree == []C34_WritesApart /\ C34_ReadsApart

----------------------------------------------------------------------------
\* the request served last was a register whose Put on the file store
\* returned no error
PutReturnedNil ==
  backend = "file" /\ last.op = "register" /\ last.status = 204

(* C35: on the file backend, after a Put that returned no error the store's
   All returns no error and maps the name to the URL that was put, for every
   callback register accepts, one with "=" in its query included *)
C35_PutReadable ==
  PutReturnedNil
    => /\ parseMap(file).err = NoErr
       /\ last.name \in DOMAIN parseMap(file).m
       /\ parseMap(file).m[last.name] = Target(last.callback)

----------------------------------------------------------------------------
\* the loop is over and no error was recorded: proxy is at, or has taken,
\* the branch that writes latestSuccess
AtSuccessBranch == pc \in {"wait", "done"} /\ got = N /\ e = NilError

(* C36: when a dispatch is at the branch that writes the selected success
   (the N outcomes received, no error recorded) a success was recorded:
   latestSuccess is not nil and the write does not dereference nil, in every
   order of the outcomes and with the cancellation at any point *)
C36_SuccessRecorded ==
  /\ (Dispatching /\ AtSuccessBranch)
       => /\ latestSuccess # NilResp
          /\ latestSuccess.from \in Upstreams
          /\ isSuccess(latestSuccess.status)
  /\ resp.kind # "panic"

\* the success of the second of two outcomes was written although the
\* inbound request had been cancelled before any outcome was received
C36_Witness ==
  /\ pc = "done" /\ resp.kind = "upstream" /\ resp.from = latestSuccess.from
  /\ cancelled /\ preCancel.got = 0
  /\ got = 2 /\ e = NilError

----------------------------------------------------------------------------
\* a step of the dispatch, of list or of health
ReadOnlyStep ==
  \/ dispVars' # dispVars
  \/ ops' # ops /\ last'.op \in {"list", "health"}

(* C37: dispatch, list and health leave the registry as it was: the map of
   the memory store, the file of the file store and what All returns are the
   same after every step of theirs, whatever they answer *)
C37_ReadOnly ==
  [][ReadOnlyStep => (regVars' = regVars /\ CurNext = Cur)]_vars

\* health answered after a register and a dispatch over the entry ended
\* with the success of its upstream: the entry is in the registry
C37_Witness ==
  /\ last.op = "health" /\ last.status = 200
  /\ pc = "done" /\ resp.kind = "upstream"
  /\ snap # EmptyMap
  /\ Cur.err = NoErr /\ Cur.m = snap

====
